---- MODULE Spec2Model ----
(***************************************************************************)
(* Model of src/leef_file.py: the LEEF log parser.                         *)
(*                                                                         *)
(* A Python str is a sequence of one-character strings.  A dict is a       *)
(* function whose domain is its key set.  A call either returns a value or *)
(* raises; an operator that models a call yields                           *)
(*     [raised |-> <exception or NoError>, value |-> <return value>].      *)
(***************************************************************************)
EXTENDS Naturals, Sequences, FiniteSets

VARIABLES
    payload,           \* the text handed to the constructor
    header_structure,  \* self.__header_structure
    delimeter,         \* self.__delimeter
    pc,                \* "new" before the constructor ran, then "ready" or "raised"
    records,           \* LeefFile.__records
    raised,            \* the exception that left the last call (NoError if none)
    returned,          \* what get_content() handed to the caller
    values,            \* the field values a header text was built from
    content,           \* LeefHeader.__content
    got                \* what LeefHeader.__getitem__ handed to the caller

vars == <<payload, header_structure, delimeter, pc, records, raised, returned,
          values, content, got>>

-----------------------------------------------------------------------------
(* Bounds of the model                                                     *)

MaxPayloadLen == 5
MaxValueLen == 2

-----------------------------------------------------------------------------
(* Characters                                                              *)

TAB == "\t"
NL == "\n"
PIPE == "|"
EQ == "="

\* The characters of the argument of payload.strip("LEEF:").
MarkerChars == {"L", "E", "F", ":"}

\* The text "LEEF:".
Marker == <<"L", "E", "E", "F", ":">>

\* Characters for which str.isspace() is true (those the model can contain).
Whitespace == {" ", TAB, NL, "\r"}

Alphabet == {"L", "a", PIPE, EQ, TAB, NL}

ValueAlphabet == {"F", "a", "1"}

Strings(alphabet, n) == UNION {[1..k -> alphabet] : k \in 0..n}

Schemas == {<<>>, <<"A">>, <<"A", "B">>, <<"A", "A">>}

\* The delimeter argument: its default, and an override.
Delimeters == {TAB, "a"}

-----------------------------------------------------------------------------
(* str methods                                                             *)

Range(s) == {s[i] : i \in 1..Len(s)}

Min(S) == CHOOSE x \in S : \A y \in S : x <= y
Max(S) == CHOOSE x \in S : \A y \in S : x >= y

\* s.strip(chars): drop the leading and the trailing characters that are in chars.
strip(s, chars) ==
    LET keep == {i \in 1..Len(s) : s[i] \notin chars}
    IN  IF keep = {} THEN <<>> ELSE SubSeq(s, Min(keep), Max(keep))

\* s.split(sep) for a one-character sep: always at least one segment.
RECURSIVE split(_, _)
split(s, sep) ==
    LET at == {i \in 1..Len(s) : s[i] = sep}
    IN  IF at = {} THEN <<s>>
        ELSE <<SubSeq(s, 1, Min(at) - 1)>> \o split(SubSeq(s, Min(at) + 1, Len(s)), sep)

\* s.rsplit(sep, 1)
rsplit1(s, sep) ==
    LET at == {i \in 1..Len(s) : s[i] = sep}
    IN  IF at = {} THEN <<s>>
        ELSE <<SubSeq(s, 1, Max(at) - 1), SubSeq(s, Max(at) + 1, Len(s))>>

\* s.split(sep, 1): split at the first sep only.
split1(s, sep) ==
    LET at == {i \in 1..Len(s) : s[i] = sep}
    IN  IF at = {} THEN <<s>>
        ELSE <<SubSeq(s, 1, Min(at) - 1), SubSeq(s, Min(at) + 1, Len(s))>>

\* s.isspace(): non-empty and made of whitespace only.
isspace(s) == Len(s) > 0 /\ \A i \in 1..Len(s) : s[i] \in Whitespace

\* sep.join(parts)
RECURSIVE join(_, _)
join(parts, sep) ==
    IF parts = <<>> THEN <<>>
    ELSE IF Len(parts) = 1 THEN parts[1]
    ELSE parts[1] \o <<sep>> \o join(Tail(parts), sep)

\* d[k] = v on a dict
setitem(d, k, v) == [x \in DOMAIN d \cup {k} |-> IF x = k THEN v ELSE d[x]]

\* d.setdefault(k, v)
setdefault(d, k, v) == [x \in DOMAIN d \cup {k} |-> IF x \in DOMAIN d THEN d[x] ELSE v]

EmptyDict == <<>>

-----------------------------------------------------------------------------
(* Exceptions and call results                                             *)

NoError == [type |-> "None", message |-> <<"", "", <<>>>>]

\* WrongHeaderStructure(header_payload=...): message + header_payload.  The
\* message is kept in three parts: the default text, the text of
\* header_payload, and the tuple formatted into header_payload.
WrongHeaderStructure(text, items) ==
    [type |-> "WrongHeaderStructure",
     message |-> <<"Header structure is incorrect", text, items>>]

\* The same error with nothing formatted into the message.
NotEqualNoItems(items) ==
    WrongHeaderStructure(" Not equal number of header fields: header - ", <<>>)

\* f" Not equal number of header fields: header - {items}"
NotEqualNumber(items) ==
    WrongHeaderStructure(" Not equal number of header fields: header - ", items)

MustBeUnique == WrongHeaderStructure(" All header fields must be unique", <<>>)

\* name, value = field.split("=", 1) with a one-element list
UnpackError ==
    [type |-> "ValueError",
     message |-> <<"not enough values to unpack (expected 2, got 1)", "", <<>>>>]

KeyError == [type |-> "KeyError", message |-> <<"", "", <<>>>>]

Return(v) == [raised |-> NoError, value |-> v]
Raise(e) == [raised |-> e, value |-> <<>>]

-----------------------------------------------------------------------------
(* LeefHeader                                                              *)

NotEmpty(x) == x # <<>>

\* tuple(filter(lambda x: x, payload.split("|"))) after the strip
HeaderItems(header) == SelectSeq(split(strip(header, MarkerChars), PIPE), NotEmpty)

\* for idx, item in enumerate(items): res[structure[idx]] = item
RECURSIVE AssignItems(_, _, _)
AssignItems(items, structure, res) ==
    IF items = <<>> \/ structure = <<>> THEN res
    ELSE AssignItems(Tail(items), Tail(structure),
                     setitem(res, Head(structure), Head(items)))

\* __parse without the check of the number of items.
LeefHeader_parse_nocount(header, structure) ==
    LET items == HeaderItems(header)
    IN  IF Cardinality(Range(structure)) # Len(structure)
        THEN Raise(MustBeUnique)
        ELSE Return(AssignItems(items, structure, EmptyDict))

\* LeefHeader.__parse
LeefHeader_parse(header, structure) ==
    LET items == HeaderItems(header)
    IN  IF Len(items) # Len(structure)
        THEN Raise(NotEqualNumber(items))
        ELSE IF Cardinality(Range(structure)) # Len(structure)
        THEN Raise(MustBeUnique)
        ELSE Return(AssignItems(items, structure, EmptyDict))

-----------------------------------------------------------------------------
(* LeefFile                                                                *)

Record(header, body) == [header |-> header, body |-> body]

NotBlank(x) == ~isspace(x) /\ x # <<>>

\* The filter without the isspace test.
RetainedNoSpaceTest(lines) == SelectSeq(lines, NotEmpty)

\* list(filter(lambda x: not x.isspace() and x, records))
Retained(lines) == SelectSeq(lines, NotBlank)

\* The body loop passing over a segment without "=".
RECURSIVE ParseBodySkip(_, _)
ParseBodySkip(fields, body) ==
    IF fields = <<>> THEN Return(body)
    ELSE LET nv == split1(Head(fields), EQ)
         IN  IF Len(nv) # 2 THEN ParseBodySkip(Tail(fields), body)
             ELSE ParseBodySkip(Tail(fields), setitem(body, nv[1], nv[2]))

\* The body loop cutting at the last "=".
RECURSIVE ParseBodyRsplit(_, _)
ParseBodyRsplit(fields, body) ==
    IF fields = <<>> THEN Return(body)
    ELSE LET nv == rsplit1(Head(fields), EQ)
         IN  IF Len(nv) # 2 THEN Raise(UnpackError)
             ELSE ParseBodyRsplit(Tail(fields), setitem(body, nv[1], nv[2]))

\* The body loop keeping the first value of a key.
RECURSIVE ParseBodyFirstWins(_, _)
ParseBodyFirstWins(fields, body) ==
    IF fields = <<>> THEN Return(body)
    ELSE LET nv == split1(Head(fields), EQ)
         IN  IF Len(nv) # 2 THEN Raise(UnpackError)
             ELSE ParseBodyFirstWins(Tail(fields), setdefault(body, nv[1], nv[2]))

\* for field in record: name, value = field.split("=", 1); body[name] = value
RECURSIVE ParseBody(_, _)
ParseBody(fields, body) ==
    IF fields = <<>> THEN Return(body)
    ELSE LET nv == split1(Head(fields), EQ)
         IN  IF Len(nv) # 2 THEN Raise(UnpackError)
             ELSE ParseBody(Tail(fields), setitem(body, nv[1], nv[2]))

\* One pass of the loop over the retained lines.
ParseLine(line, structure, delim) ==
    LET record == split(line, delim)
        header == LeefHeader_parse(Head(record), structure)
        body   == ParseBody(Tail(record), EmptyDict)
    IN  IF header.raised # NoError THEN Raise(header.raised)
        ELSE IF body.raised # NoError THEN Raise(body.raised)
        ELSE Return(Record(header.value, body.value))

\* for record in records: ...; an exception leaves the loop and the call.
RECURSIVE ParseLines(_, _, _, _)
ParseLines(lines, structure, delim, parsed) ==
    IF lines = <<>> THEN Return(parsed)
    ELSE LET r == ParseLine(Head(lines), structure, delim)
         IN  IF r.raised # NoError THEN Raise(r.raised)
             ELSE ParseLines(Tail(lines), structure, delim, Append(parsed, r.value))

\* A loop that passes over a line that raises instead of letting it propagate.
RECURSIVE ParseLinesSkip(_, _, _, _)
ParseLinesSkip(lines, structure, delim, parsed) ==
    IF lines = <<>> THEN Return(parsed)
    ELSE LET r == ParseLine(Head(lines), structure, delim)
         IN  IF r.raised # NoError
             THEN ParseLinesSkip(Tail(lines), structure, delim, parsed)
             ELSE ParseLinesSkip(Tail(lines), structure, delim, Append(parsed, r.value))

\* A loop that parses the header of the first line once and reuses it.
RECURSIVE ParseLinesSharedHeader(_, _, _, _, _)
ParseLinesSharedHeader(lines, first, structure, delim, parsed) ==
    IF lines = <<>> THEN Return(parsed)
    ELSE LET record == split(Head(lines), delim)
             header == LeefHeader_parse(first, structure)
             body   == ParseBody(Tail(record), EmptyDict)
         IN  IF header.raised # NoError THEN Raise(header.raised)
             ELSE IF body.raised # NoError THEN Raise(body.raised)
             ELSE ParseLinesSharedHeader(Tail(lines), first, structure, delim,
                      Append(parsed, Record(header.value, body.value)))

LeefFile_parse_skip(text, structure, delim) ==
    ParseLinesSkip(Retained(split(text, NL)), structure, delim, <<>>)

LeefFile_parse_shared(text, structure, delim) ==
    LET lines == Retained(split(text, NL))
    IN  IF lines = <<>> THEN Return(<<>>)
        ELSE ParseLinesSharedHeader(lines, Head(split(Head(lines), delim)),
                                    structure, delim, <<>>)

\* LeefFile._parse
LeefFile_parse(text, structure, delim) ==
    ParseLines(Retained(split(text, NL)), structure, delim, <<>>)

-----------------------------------------------------------------------------
(* The state machine                                                       *)

Init ==
    /\ payload \in Strings(Alphabet, MaxPayloadLen)
    /\ header_structure \in Schemas
    /\ delimeter \in Delimeters
    /\ pc = "new"
    /\ records = <<>>
    /\ raised = NoError
    /\ returned = <<>>
    /\ values = <<>>
    /\ content = EmptyDict
    /\ got = <<>>

\* LeefFile.__init__
LeefFile_init ==
    /\ pc = "new"
    /\ LET r == LeefFile_parse(payload, header_structure, delimeter)
       IN  /\ raised' = r.raised
           /\ records' = r.value
           /\ pc' = IF r.raised = NoError THEN "ready" ELSE "raised"
    /\ UNCHANGED <<payload, header_structure, delimeter, returned, values, content, got>>

\* LeefFile.get_content
get_content ==
    /\ pc = "ready"
    /\ returned' = records
    /\ UNCHANGED <<payload, header_structure, delimeter, pc, records, raised,
                   values, content, got>>

Next == LeefFile_init \/ get_content

Spec == Init /\ [][Next]_vars

-----------------------------------------------------------------------------
(* LeefHeader on its own: a header text built from field values            *)

\* Values a header text can carry: non-empty and free of the separator.
HeaderValues == Strings(ValueAlphabet, MaxValueLen) \ {<<>>}

FieldNames == {"A", "B", "C"}

Distinct(s) == \A i, j \in 1..Len(s) : s[i] = s[j] => i = j

InitHeader ==
    /\ header_structure \in {s \in Schemas : Distinct(s)}
    /\ values \in [1..Len(header_structure) -> HeaderValues]
    /\ payload = Marker \o join(values, PIPE)
    /\ delimeter = TAB
    /\ pc = "new"
    /\ records = <<>>
    /\ raised = NoError
    /\ returned = <<>>
    /\ content = EmptyDict
    /\ got = <<>>

\* LeefHeader.__init__
LeefHeader_init ==
    /\ pc = "new"
    /\ LET r == LeefHeader_parse(payload, header_structure)
       IN  /\ raised' = r.raised
           /\ content' = r.value
           /\ pc' = IF r.raised = NoError THEN "ready" ELSE "raised"
    /\ UNCHANGED <<payload, header_structure, delimeter, records, returned, values, got>>

\* LeefHeader.__getitem__
LeefHeader_getitem ==
    /\ pc = "ready"
    /\ \E key \in FieldNames :
          IF key \in DOMAIN content
          THEN got' = content[key] /\ raised' = NoError
          ELSE got' = got /\ raised' = KeyError
    /\ UNCHANGED <<payload, header_structure, delimeter, pc, records, returned,
                   values, content>>

NextHeader == LeefHeader_init \/ LeefHeader_getitem

SpecHeader == InitHeader /\ [][NextHeader]_vars

-----------------------------------------------------------------------------
(* What the properties speak of, read off the input text                   *)

Done == pc # "new"

Lines == split(payload, NL)

\* A line that is neither empty nor made of whitespace only.
HasText(line) == \E j \in 1..Len(line) : line[j] \notin Whitespace

\* The lines the parse is about, in the order of the payload.
KeptLines == SelectSeq(Lines, HasText)

HeaderOf(line) == Head(split(line, delimeter))

FieldsOf(line) == Tail(split(line, delimeter))

DupSchema == ~Distinct(header_structure)

\* The header of the line has not as many non-empty segments as the schema has names.
BadCount(line) == Len(HeaderItems(HeaderOf(line))) # Len(header_structure)

\* The line has a body segment without "=".
BadField(line) == \E k \in 1..Len(FieldsOf(line)) : EQ \notin Range(FieldsOf(line)[k])

BadCountLines ==
    LET kept == KeptLines IN {n \in 1..Len(kept) : BadCount(kept[n])}

BadFieldLines ==
    LET kept == KeptLines IN {n \in 1..Len(kept) : BadField(kept[n])}

IsNotEqualNumber(e) ==
    /\ e.type = "WrongHeaderStructure"
    /\ e.message[2] = " Not equal number of header fields: header - "

-----------------------------------------------------------------------------
(* C1: a successful parse returns one record per line that is neither      *)
(* empty nor whitespace-only, the n-th record being the parse of the n-th  *)
(* such line; a payload without such a line parses to the empty sequence   *)
(* and raises nothing.                                                     *)
C1_LengthAndOrder ==
    /\ (Done /\ KeptLines = <<>>) => (pc = "ready" /\ records = <<>>)
    /\ pc = "ready" =>
          LET kept == KeptLines
          IN  /\ Len(records) = Len(kept)
              /\ \A n \in 1..Len(records) :
                    LET r == ParseLine(kept[n], header_structure, delimeter)
                    IN  r.raised = NoError /\ records[n] = r.value

\* Two different records around a whitespace-only line.
C1_Witness ==
    /\ pc = "ready"
    /\ Len(records) >= 2
    /\ records[1] # records[2]
    /\ \E i \in 1..Len(Lines) : isspace(Lines[i])

(* C3: with a repeated name in the schema the parse fails with the         *)
(* all-fields-must-be-unique error, whatever the payload.                  *)
C3_DuplicateSchemaAlwaysRejected ==
    (Done /\ DupSchema) => (pc = "raised" /\ raised = MustBeUnique)

(* C4: in every record of a successful parse the header's keys are exactly *)
(* the names of the schema, one entry per name.                            *)
C4_HeaderKeysAreSchema ==
    pc = "ready" =>
        \A n \in 1..Len(records) :
            /\ DOMAIN records[n].header = Range(header_structure)
            /\ Cardinality(DOMAIN records[n].header) = Len(header_structure)

\* A record parsed under a schema of two names.
C4_Witness ==
    /\ pc = "ready"
    /\ Len(records) >= 1
    /\ Len(header_structure) = 2

(* C5 as stated: a retained line whose header has the wrong number of      *)
(* segments makes the parse fail with the header-structure error and       *)
(* return no records.                                                      *)
C5_FailsWithHeaderError ==
    (Done /\ BadCountLines # {}) =>
        (pc = "raised" /\ records = <<>> /\ raised.type = "WrongHeaderStructure")

(* C5 amended: such a line makes the parse fail and return no records; the *)
(* error is the header-structure error, except that under a duplicate-free *)
(* schema an earlier line with a body segment without "=" raises its       *)
(* ValueError first.  With a duplicate-free schema and no such earlier     *)
(* line the error is the count mismatch of the first such line.            *)
C5_FailFast ==
    (Done /\ BadCountLines # {}) =>
        LET f == Min(BadCountLines)
            earlier == \E m \in BadFieldLines : m < f
        IN  /\ pc = "raised"
            /\ records = <<>>
            /\ IF ~DupSchema /\ earlier
               THEN raised = UnpackError
               ELSE raised.type = "WrongHeaderStructure"
            /\ (~DupSchema /\ ~earlier) =>
                  raised = NotEqualNumber(HeaderItems(HeaderOf(KeptLines[f])))

\* The count mismatch is raised by a line after one that parsed.
C5_Witness ==
    /\ pc = "raised"
    /\ BadCountLines # {}
    /\ Min(BadCountLines) >= 2
    /\ IsNotEqualNumber(raised)

(* C6: a body segment without "=" (an empty one included) in any retained  *)
(* line makes the parse fail: no records are returned, the segment is      *)
(* neither skipped nor made an entry.  When no header check fails first,   *)
(* the error is the ValueError of the unpacking.                           *)
C6_SegmentWithoutEqFails ==
    (Done /\ BadFieldLines # {}) =>
        /\ pc = "raised"
        /\ records = <<>>
        /\ (~DupSchema /\ \A m \in BadCountLines : m > Min(BadFieldLines))
               => raised = UnpackError

\* The unpacking fails on an empty segment.
C6_Witness ==
    /\ pc = "raised"
    /\ raised = UnpackError
    /\ LET kept == KeptLines
       IN  \E n \in 1..Len(kept) : <<>> \in Range(FieldsOf(kept[n]))

\* The first retained line that raises.
FailingLines ==
    LET kept == KeptLines
    IN  {n \in 1..Len(kept) : BadCount(kept[n]) \/ DupSchema \/ BadField(kept[n])}

FirstEq(field) == Min({i \in 1..Len(field) : field[i] = EQ})
KeyOf(field) == SubSeq(field, 1, FirstEq(field) - 1)
ValueOf(field) == SubSeq(field, FirstEq(field) + 1, Len(field))

(* C8: a body segment is split at its first "=" only: the text before it   *)
(* is a key of the body, and (for the last segment of that key) the whole  *)
(* text after it, further "=" included, is the value.                      *)
C8_SplitAtFirstEq ==
    pc = "ready" =>
        \A n \in 1..Len(records) :
            LET fields == FieldsOf(KeptLines[n])
                body   == records[n].body
            IN  \A k \in 1..Len(fields) :
                    /\ KeyOf(fields[k]) \in DOMAIN body
                    /\ (\A l \in (k + 1)..Len(fields) : KeyOf(fields[l]) # KeyOf(fields[k]))
                           => body[KeyOf(fields[k])] = ValueOf(fields[k])

\* A parsed segment with more than one "=".
C8_Witness ==
    /\ pc = "ready"
    /\ \E n \in 1..Len(records) :
          \E k \in 1..Len(FieldsOf(KeptLines[n])) :
              LET field == FieldsOf(KeptLines[n])[k]
              IN  Cardinality({i \in 1..Len(field) : field[i] = EQ}) >= 2

(* C9: the body of a record has exactly one entry per distinct key of its  *)
(* line, holding the value of the last segment with that key.              *)
C9_LastOccurrenceWins ==
    pc = "ready" =>
        \A n \in 1..Len(records) :
            LET fields == FieldsOf(KeptLines[n])
                body   == records[n].body
                key(k) == split1(fields[k], EQ)[1]
                val(k) == split1(fields[k], EQ)[2]
            IN  /\ DOMAIN body = {key(k) : k \in 1..Len(fields)}
                /\ \A k \in 1..Len(fields) :
                      body[key(k)] = val(Max({l \in 1..Len(fields) : key(l) = key(k)}))

\* A parsed line in which a key occurs twice with different values.
C9_Witness ==
    /\ pc = "ready"
    /\ \E n \in 1..Len(records) :
          LET fields == FieldsOf(KeptLines[n])
          IN  \E k, l \in 1..Len(fields) :
                  /\ k < l
                  /\ split1(fields[k], EQ)[1] = split1(fields[l], EQ)[1]
                  /\ split1(fields[k], EQ)[2] # split1(fields[l], EQ)[2]

\* The newlines of the payload: each cuts it into a text before and a text after.
Cuts == {i \in 1..Len(payload) : payload[i] = NL}
Before(i) == LeefFile_parse(SubSeq(payload, 1, i - 1), header_structure, delimeter)
After(i) == LeefFile_parse(SubSeq(payload, i + 1, Len(payload)), header_structure, delimeter)

(* C10: the parse of P1, a newline, P2 succeeds exactly when the parses of *)
(* P1 and of P2 both do, and its records are those of P1 followed by those *)
(* of P2.                                                                  *)
C10_LinesIndependent ==
    Done =>
        \A i \in Cuts :
            /\ pc = "ready" <=> (Before(i).raised = NoError /\ After(i).raised = NoError)
            /\ pc = "ready" => records = Before(i).value \o After(i).value

\* A newline with records on both sides of it.
C10_Witness ==
    /\ pc = "ready"
    /\ \E i \in Cuts : Len(Before(i).value) >= 1 /\ Len(After(i).value) >= 1

(* C2: the header text "LEEF:" + "|".join(values) parses to a header whose *)
(* field schema[i] holds values[i], for every i.                           *)
C2_HeaderRoundTrip ==
    Done =>
        /\ pc = "ready"
        /\ \A i \in 1..Len(header_structure) :
              /\ header_structure[i] \in DOMAIN content
              /\ content[header_structure[i]] = values[i]

====
